---------------------------- MODULE Spec2Model ----------------------------
(***************************************************************************)
(* Seed selection of pandemaniac.py: main's loop over the requested        *)
(* strategy tags, the nine strategies, the completion loop of the three    *)
(* extractor strategies and the replication of a round.                    *)
(*                                                                         *)
(* A graph is a node sequence `nodes` (the iteration order of the networkx *)
(* graph, which is also the iteration order of every score dictionary      *)
(* computed from it) and a set `edges` of two-element node sets.  Node     *)
(* identifiers are integers; the random strategy returns 0-based indices.  *)
(*                                                                         *)
(* networkx, numpy and heapq are libraries outside the repository.  They   *)
(* are modelled by what they are documented to compute.  Where releases    *)
(* differ (the guard of degree_centrality on graphs of one node, the       *)
(* vertex cover construction, numpy's check of an empty population) the    *)
(* release is a parameter `lib` that every step draws afresh, so both      *)
(* outcomes are explored.  Betweenness, eigenvector and Katz scores are    *)
(* floating point results of iterative library code: their score map is    *)
(* any map from the nodes to scores, or a failure to converge.             *)
(***************************************************************************)
EXTENDS Integers, Sequences, FiniteSets, TLC

VARIABLES
    nodes,              \* G: node iteration order, a sequence without repeats
    edges,              \* G: set of {u, v}
    num_seeds,          \* middle field of the file name
    num_iterations,     \* NUM_ITERATIONS as handed to a strategy
    strategies,         \* the tags typed by the user
    s,                  \* main: index of the tag the for loop is at
    pc,                 \* position in main / in the running strategy
    strategy,           \* main: s.lower() of the current tag
    extracted,          \* vc_nodes / ds_nodes / nodes of mst
    ranked_edges,       \* edges of the graph the extractor ranks on
    centralities_dict,  \* score of every node of the ranked graph
    node_keys,          \* the round being built
    nodes_top_degrees,  \* fallback order of the completion loop
    i,                  \* loop index (completion loop, random rounds)
    output,             \* value returned by the strategy
    files,              \* output files written so far: tag -> lines
    err                 \* exception that ended the run, "none" otherwise

vars == << nodes, edges, num_seeds, num_iterations, strategies, s, pc,
           strategy, extracted, ranked_edges, centralities_dict, node_keys,
           nodes_top_degrees, i, output, files, err >>

---------------------------------------------------------------------------
\* Bounds of the explored inputs.

MaxNodes == 4
MaxSeeds == 2
MaxIterations == 2
MaxScore == 1
MainNodes == 1
MainSeeds == 1
MaxTags == 2

---------------------------------------------------------------------------
\* Sequences and sets.

Range(q) == { q[j] : j \in DOMAIN q }

Pos(q, x) == CHOOSE j \in DOMAIN q : q[j] = x

NoRepeats(q) == \A a, b \in DOMAIN q : a # b => q[a] # q[b]

Min(a, b) == IF a <= b THEN a ELSE b

RemoveAt(q, j) == SubSeq(q, 1, j - 1) \o SubSeq(q, j + 1, Len(q))

\* The subsequence of q of the elements in S (order kept).
RECURSIVE Restrict(_, _)
Restrict(q, S) ==
    IF q = << >> THEN << >>
    ELSE IF Head(q) \in S THEN << Head(q) >> \o Restrict(Tail(q), S)
         ELSE Restrict(Tail(q), S)

\* Mutant of Repeat: every further copy is rotated by one place.
RECURSIVE Repeat_rotated(_, _)
Repeat_rotated(q, n) ==
    IF n <= 0 THEN << >>
    ELSE q \o Repeat_rotated(IF q = << >> THEN q ELSE Tail(q) \o << Head(q) >>,
                             n - 1)

\* seq * n of Python.
RECURSIVE Repeat(_, _)
Repeat(q, n) == IF n <= 0 THEN << >> ELSE q \o Repeat(q, n - 1)

Ascending(n) == [ j \in 1..n |-> j ]

Descending(n) == [ j \in 1..n |-> n + 1 - j ]

AllPairs(n) == { {u, v} : u, v \in 1..n } \ { {u} : u \in 1..n }

---------------------------------------------------------------------------
\* Scores are rationals num/den with den > 0.

Score(n, d) == [ num |-> n, den |-> d ]

Greater(a, b) == a.num * b.den > b.num * a.den

Equal(a, b) == a.num * b.den = b.num * a.den

---------------------------------------------------------------------------
\* Graph primitives of networkx.

Neighbors(E, u) == { v \in UNION E : {u, v} \in E /\ v # u }

Induced(E, S) == { e \in E : e \subseteq S }

\* G.edges(): every edge once, from the endpoint that comes first.
RECURSIVE EdgesFrom(_, _, _)
EdgesFrom(N, E, j) ==
    IF j > Len(N) THEN << >>
    ELSE LET later == Restrict(SubSeq(N, j + 1, Len(N)), Neighbors(E, N[j]))
         IN  [ m \in 1..Len(later) |-> << N[j], later[m] >> ]
             \o EdgesFrom(N, E, j + 1)

EdgeList(N, E) == EdgesFrom(N, E, 1)

\* nx.degree_centrality: degree / (len(G) - 1); the current release returns 1
\* for every node when len(G) <= 1, the legacy one divides by zero at len 1.
degree_centrality_fails(lib, N) == lib = "legacy" /\ Len(N) = 1

degree_centrality(N, E) ==
    [ u \in Range(N) |->
        IF Len(N) <= 1 THEN Score(1, 1)
        ELSE Score(Cardinality(Neighbors(E, u) \cap Range(N)), Len(N) - 1) ]

\* nx.clustering: triangles through u over the pairs of neighbours of u.
Triangles(E, u) ==
    Cardinality({ e \in E : e \subseteq Neighbors(E, u) })

clustering(N, E) ==
    [ u \in Range(N) |->
        LET d == Cardinality(Neighbors(E, u))
            t == Triangles(E, u)
        IN  IF t = 0 THEN Score(0, 1) ELSE Score(2 * t, d * (d - 1)) ]

\* Betweenness, eigenvector and Katz centrality: some score for every node.
LibraryScores(N) == [ Range(N) -> { Score(v, 1) : v \in 0..MaxScore } ]

\* Mutant of BestIndex: equal scores are ordered by identifier.
BestIndex_by_identifier(order, score) ==
    CHOOSE j \in DOMAIN order :
        /\ \A m \in DOMAIN order : ~Greater(score[order[m]], score[order[j]])
        /\ \A m \in DOMAIN order :
              Equal(score[order[m]], score[order[j]]) => order[j] <= order[m]

\* heapq.nlargest(n, d.items(), key=itemgetter(1)), keys only: the same as
\* sorted(..., reverse=True)[:n], which keeps equal scores in iteration order.
BestIndex(order, score) ==
    CHOOSE j \in DOMAIN order :
        /\ \A m \in DOMAIN order : ~Greater(score[order[m]], score[order[j]])
        /\ \A m \in 1..(j - 1) : Greater(score[order[j]], score[order[m]])

RECURSIVE nlargest(_, _, _)
nlargest(n, order, score) ==
    IF n <= 0 \/ order = << >> THEN << >>
    ELSE LET j == BestIndex(order, score)
         IN  << order[j] >> \o nlargest(n - 1, RemoveAt(order, j), score)

\* nx.minimum_spanning_tree: Kruskal over G.edges() (all weights equal, the
\* sort is stable); comp maps every node to its component.
RECURSIVE Kruskal(_, _, _)
Kruskal(el, comp, T) ==
    IF el = << >> THEN T
    ELSE LET u == Head(el)[1]
             v == Head(el)[2]
         IN  IF comp[u] = comp[v] THEN Kruskal(Tail(el), comp, T)
             ELSE Kruskal(Tail(el),
                          [ w \in DOMAIN comp |->
                              IF comp[w] = comp[v] THEN comp[u] ELSE comp[w] ],
                          T \cup { {u, v} })

minimum_spanning_tree(N, E) ==
    Kruskal(EdgeList(N, E), [ u \in Range(N) |-> u ], {})

\* nx.dominating_set: start_with and every remaining_nodes.pop() take an
\* arbitrary element of a set, so every run of the greedy loop is a result.
RECURSIVE DominatingGrow(_, _, _)
DominatingGrow(E, ds, remaining) ==
    IF remaining = {} THEN { ds }
    ELSE UNION { DominatingGrow(E, ds \cup {v},
                                (remaining \ {v}) \ (Neighbors(E, v) \ ds))
                 : v \in remaining }

dominating_set(N, E) ==
    UNION { DominatingGrow(E, {u}, (Range(N) \ Neighbors(E, u)) \ {u})
            : u \in Range(N) }

\* min_weighted_vertex_cover with unit weights.  Legacy: both endpoints of an
\* edge pay the smaller remaining cost, the nodes of cost 0 are the cover.
RECURSIVE CoverLegacy(_, _)
CoverLegacy(el, cost) ==
    IF el = << >> THEN { u \in DOMAIN cost : cost[u] = 0 }
    ELSE LET u == Head(el)[1]
             v == Head(el)[2]
             m == Min(cost[u], cost[v])
         IN  CoverLegacy(Tail(el),
                         [ cost EXCEPT ![u] = cost[u] - m, ![v] = cost[v] - m ])

\* Current: an uncovered edge adds its cheaper endpoint to the cover.
RECURSIVE CoverCurrent(_, _, _)
CoverCurrent(el, cost, cover) ==
    IF el = << >> THEN cover
    ELSE LET u == Head(el)[1]
             v == Head(el)[2]
         IN  IF u \in cover \/ v \in cover
             THEN CoverCurrent(Tail(el), cost, cover)
             ELSE IF cost[u] <= cost[v]
             THEN CoverCurrent(Tail(el),
                               [ cost EXCEPT ![v] = cost[v] - cost[u] ],
                               cover \cup {u})
             ELSE CoverCurrent(Tail(el),
                               [ cost EXCEPT ![u] = cost[u] - cost[v] ],
                               cover \cup {v})

min_weighted_vertex_cover(lib, N, E) ==
    IF lib = "legacy"
    THEN CoverLegacy(EdgeList(N, E), [ u \in Range(N) |-> 1 ])
    ELSE CoverCurrent(EdgeList(N, E), [ u \in Range(N) |-> 1 ], {})

\* Mutant of RandomChoices: sampling with replacement.
RandomChoices_with_replacement(n, k) == [ 1..k -> 0..(n - 1) ]

\* np.random.choice(n, k, replace=False).tolist(): k distinct indices.
RandomChoices(n, k) ==
    { q \in [ 1..k -> 0..(n - 1) ] : NoRepeats(q) }

\* ValueError: a larger sample than the population; the legacy release also
\* rejects an empty population when no sample is taken.
random_choice_fails(lib, n, k) ==
    k > n \/ (lib = "legacy" /\ n = 0)

Builds == { "legacy", "current" }

---------------------------------------------------------------------------
\* Strategy tags.

KnownTags == { "r", "d", "e", "b", "c", "k", "m", "s", "v" }

\* str.lower() on the tags that are tried.
Lower(tag) ==
    CASE tag = "D" -> "d"
      [] tag = "X" -> "x"
      [] OTHER -> tag

RequestedTags == KnownTags \cup { "x", "D", "X" }

---------------------------------------------------------------------------
\* Inputs.

Graphs(n) ==
    { [ nodes |-> o, edges |-> E ] :
        o \in { Ascending(n), Descending(n) }, E \in SUBSET AllPairs(n) }

\* Graphs for the strategies that read nothing of the edges in this model:
\* the scores of the library rankers are arbitrary, and random_strategy reads
\* len(G) only.
PlainGraphs(n) ==
    { [ nodes |-> o, edges |-> E ] :
        o \in { Ascending(n), Descending(n) }, E \in { {}, AllPairs(n) } }

GraphsFor(tag) ==
    IF Lower(tag) \in { "d", "c", "m", "s", "v" }
    THEN UNION { Graphs(n) : n \in 0..MaxNodes }
    ELSE IF Lower(tag) = "r"
    THEN { [ nodes |-> Ascending(n), edges |-> {} ] : n \in 0..MaxNodes }
    ELSE UNION { PlainGraphs(n) : n \in 0..MaxNodes }

TagLists(n) == UNION { [ 1..m -> KnownTags \cup { "x" } ] : m \in 0..n }

NoFiles == [ t \in {} |-> << >> ]

NoScores == [ u \in {} |-> Score(0, 1) ]

Start(g, k, it, tags) ==
    /\ nodes = g.nodes
    /\ edges = g.edges
    /\ num_seeds = k
    /\ num_iterations = it
    /\ strategies = tags
    /\ s = 1
    /\ pc = "main"
    /\ strategy = ""
    /\ extracted = {}
    /\ ranked_edges = {}
    /\ centralities_dict = NoScores
    /\ node_keys = << >>
    /\ nodes_top_degrees = << >>
    /\ i = 0
    /\ output = << >>
    /\ files = NoFiles
    /\ err = "none"

\* One requested strategy on a graph of up to MaxNodes nodes.  main hands
\* NUM_ITERATIONS = 50 to every strategy; the strategies take any number of
\* rounds, which is drawn from 0..MaxIterations.
Init ==
    \E tag \in RequestedTags :
        \E g \in GraphsFor(tag), k \in 0..MaxSeeds, it \in 0..MaxIterations :
            Start(g, k, it, << tag >>)

\* A list of requested strategies on a graph of up to MainNodes nodes.
InitMain ==
    \E g \in UNION { Graphs(n) : n \in 0..MainNodes } :
        \E k \in 0..MainSeeds, tags \in TagLists(MaxTags) :
            Start(g, k, 1, tags)

---------------------------------------------------------------------------
\* Steps.

input == << nodes, edges, num_seeds, num_iterations, strategies >>

locals == << extracted, ranked_edges, centralities_dict, node_keys,
             nodes_top_degrees, i >>

\* An uncaught exception ends the process.
Raise(e) ==
    /\ pc' = "aborted"
    /\ err' = e
    /\ UNCHANGED << input, s, strategy, locals, output, files >>

\* main, lines 20-39: the next tag selects its strategy.
Dispatch ==
    /\ pc = "main"
    /\ s <= Len(strategies)
    /\ Lower(strategies[s]) \in KnownTags
    /\ strategy' = Lower(strategies[s])
    /\ pc' = Lower(strategies[s])
    /\ extracted' = {}
    /\ ranked_edges' = {}
    /\ centralities_dict' = NoScores
    /\ node_keys' = << >>
    /\ nodes_top_degrees' = << >>
    /\ i' = 0
    /\ output' = << >>
    /\ UNCHANGED << input, s, files, err >>

\* Mutant of UnknownTag: the tag is skipped and the loop goes on.
UnknownTag_skipped ==
    /\ pc = "main"
    /\ s <= Len(strategies)
    /\ Lower(strategies[s]) \notin KnownTags
    /\ s' = s + 1
    /\ UNCHANGED << input, pc, strategy, locals, output, files, err >>

\* main, lines 40-41: assert(False) on any other tag.
UnknownTag ==
    /\ pc = "main"
    /\ s <= Len(strategies)
    /\ Lower(strategies[s]) \notin KnownTags
    /\ pc' = "aborted"
    /\ err' = "AssertionError"
    /\ strategy' = Lower(strategies[s])
    /\ UNCHANGED << input, s, locals, output, files >>

\* Mutant of RankerReturn: the node count is checked first.
RankerReturn_checked(score) ==
    IF Len(nodes) < num_seeds
    THEN Raise("InsufficientNodesError")
    ELSE /\ centralities_dict' = score
         /\ node_keys' = nlargest(num_seeds, nodes, score)
         /\ output' = Repeat(nlargest(num_seeds, nodes, score), num_iterations)
         /\ pc' = "emit"
         /\ UNCHANGED << input, s, strategy, extracted, ranked_edges,
                         nodes_top_degrees, i, files, err >>

\* A ranker: top num_seeds of the score map, repeated.
RankerReturn(score) ==
    /\ centralities_dict' = score
    /\ node_keys' = nlargest(num_seeds, nodes, score)
    /\ output' = Repeat(nlargest(num_seeds, nodes, score), num_iterations)
    /\ pc' = "emit"
    /\ UNCHANGED << input, s, strategy, extracted, ranked_edges,
                    nodes_top_degrees, i, files, err >>

degree_centrality_strategy ==
    /\ pc = "d"
    /\ \E lib \in Builds :
        IF degree_centrality_fails(lib, nodes)
        THEN Raise("ZeroDivisionError")
        ELSE RankerReturn(degree_centrality(nodes, edges))

clustering_coefficient_strategy ==
    /\ pc = "c"
    /\ RankerReturn(clustering(nodes, edges))

betweenness_centrality_strategy ==
    /\ pc = "b"
    /\ \E score \in LibraryScores(nodes) : RankerReturn(score)

\* nx.eigenvector_centrality rejects the null graph and may not converge.
eigenvector_centrality_strategy ==
    /\ pc = "e"
    /\ \/ /\ nodes # << >>
          /\ \E score \in LibraryScores(nodes) : RankerReturn(score)
       \/ /\ nodes = << >>
          /\ Raise("NetworkXPointlessConcept")
       \/ /\ nodes # << >>
          /\ Raise("PowerIterationFailedConvergence")

\* nx.katz_centrality returns {} for the null graph and may not converge.
katz_centrality_strategy ==
    /\ pc = "k"
    /\ \/ \E score \in LibraryScores(nodes) : RankerReturn(score)
       \/ /\ nodes # << >>
          /\ Raise("PowerIterationFailedConvergence")

\* Mutant of top_degrees: one node short.
top_degrees_short(N, E, k) ==
    Repeat(nlargest(k - 1, N, degree_centrality(N, E)), 1)

\* degree_centrality_strategy(G, 1, num_seeds) as the extractors call it.
top_degrees(N, E, k) == Repeat(nlargest(k, N, degree_centrality(N, E)), 1)

\* Mutant of ExtractorRank: the extracted nodes are ranked by their degree
\* centrality in G.
ExtractorRank_on_whole_graph(lib, sub, subedges) ==
    LET order == Restrict(nodes, sub)
        number_of_nodes ==
            IF Cardinality(sub) < num_seeds THEN Cardinality(sub) ELSE num_seeds
    IN  IF degree_centrality_fails(lib, order)
           \/ degree_centrality_fails(lib, nodes)
        THEN Raise("ZeroDivisionError")
        ELSE /\ extracted' = sub
             /\ ranked_edges' = subedges
             /\ centralities_dict' = degree_centrality(nodes, edges)
             /\ node_keys' = nlargest(number_of_nodes, order,
                                      degree_centrality(nodes, edges))
             /\ nodes_top_degrees' = top_degrees(nodes, edges, num_seeds)
             /\ i' = 0
             /\ pc' = "complete"
             /\ UNCHANGED << input, s, strategy, output, files, err >>

\* Lines 123-132 (163-172, 194-203): rank the extracted graph by degree
\* centrality, take the top min(num_seeds, len), fetch the fallback order.
ExtractorRank(lib, sub, subedges) ==
    LET order == Restrict(nodes, sub)
        number_of_nodes ==
            IF Cardinality(sub) < num_seeds THEN Cardinality(sub) ELSE num_seeds
    IN  IF degree_centrality_fails(lib, order)
           \/ degree_centrality_fails(lib, nodes)
        THEN Raise("ZeroDivisionError")
        ELSE /\ extracted' = sub
             /\ ranked_edges' = subedges
             /\ centralities_dict' = degree_centrality(order, subedges)
             /\ node_keys' = nlargest(number_of_nodes, order,
                                      degree_centrality(order, subedges))
             /\ nodes_top_degrees' = top_degrees(nodes, edges, num_seeds)
             /\ i' = 0
             /\ pc' = "complete"
             /\ UNCHANGED << input, s, strategy, output, files, err >>

vertex_cover_strategy ==
    /\ pc = "v"
    /\ \E lib \in Builds :
        LET vc_nodes == min_weighted_vertex_cover(lib, nodes, edges)
        IN  ExtractorRank(lib, vc_nodes, Induced(edges, vc_nodes))

\* nx.dominating_set takes an arbitrary element of set(G): none in the null
\* graph.  Line 162 asserts that the dominating set leaves a node out.
dominating_set_strategy ==
    /\ pc = "s"
    /\ IF nodes = << >>
       THEN Raise("StopIteration")
       ELSE \E lib \in Builds, ds_nodes \in dominating_set(nodes, edges) :
                IF ~(Len(nodes) > Cardinality(ds_nodes))
                THEN Raise("AssertionError")
                ELSE ExtractorRank(lib, ds_nodes, Induced(edges, ds_nodes))

mst_strategy ==
    /\ pc = "m"
    /\ \E lib \in Builds :
        ExtractorRank(lib, Range(nodes), minimum_spanning_tree(nodes, edges))

\* Mutant of complete_step: the membership test is dropped.
complete_step_without_test ==
    /\ pc = "complete"
    /\ Len(node_keys) # num_seeds
    /\ IF i + 1 > Len(nodes_top_degrees)
       THEN Raise("IndexError")
       ELSE /\ node_keys' = Append(node_keys, nodes_top_degrees[i + 1])
            /\ i' = i + 1
            /\ UNCHANGED << input, s, pc, strategy, extracted, ranked_edges,
                            centralities_dict, nodes_top_degrees, output,
                            files, err >>

\* Lines 133-136 (173-176, 204-207): one pass of the while loop.
complete_step ==
    /\ pc = "complete"
    /\ Len(node_keys) # num_seeds
    /\ IF i + 1 > Len(nodes_top_degrees)
       THEN Raise("IndexError")
       ELSE /\ node_keys' =
                 IF nodes_top_degrees[i + 1] \notin Range(node_keys)
                 THEN Append(node_keys, nodes_top_degrees[i + 1])
                 ELSE node_keys
            /\ i' = i + 1
            /\ UNCHANGED << input, s, pc, strategy, extracted, ranked_edges,
                            centralities_dict, nodes_top_degrees, output,
                            files, err >>

\* Lines 137-138 (177-178, 208-209): the loop is over, the round is repeated.
complete_return ==
    /\ pc = "complete"
    /\ Len(node_keys) = num_seeds
    /\ output' = Repeat(node_keys, num_iterations)
    /\ pc' = "emit"
    /\ UNCHANGED << input, s, strategy, locals, files, err >>

\* random_strategy, lines 324-327: one round of the for loop.
random_round ==
    /\ pc = "r"
    /\ i < num_iterations
    /\ \E lib \in Builds :
        IF random_choice_fails(lib, Len(nodes), num_seeds)
        THEN Raise("ValueError")
        ELSE \E seed_values \in RandomChoices(Len(nodes), num_seeds) :
                /\ output' = output \o seed_values
                /\ i' = i + 1
                /\ UNCHANGED << input, s, pc, strategy, extracted,
                                ranked_edges, centralities_dict, node_keys,
                                nodes_top_degrees, files, err >>

\* random_strategy, line 328.
random_return ==
    /\ pc = "r"
    /\ i = num_iterations
    /\ pc' = "emit"
    /\ UNCHANGED << input, s, strategy, locals, output, files, err >>

\* main, lines 42-45: output_list writes <graph>_<strategy>.txt.
output_list ==
    /\ pc = "emit"
    /\ files' = [ t \in DOMAIN files \cup { strategy } |->
                    IF t = strategy THEN output ELSE files[t] ]
    /\ s' = s + 1
    /\ pc' = "main"
    /\ UNCHANGED << input, strategy, locals, output, err >>

\* main, line 46.
Return ==
    /\ pc = "main"
    /\ s > Len(strategies)
    /\ pc' = "done"
    /\ UNCHANGED << input, s, strategy, locals, output, files, err >>

Next ==
    \/ Dispatch
    \/ UnknownTag
    \/ degree_centrality_strategy
    \/ clustering_coefficient_strategy
    \/ betweenness_centrality_strategy
    \/ eigenvector_centrality_strategy
    \/ katz_centrality_strategy
    \/ vertex_cover_strategy
    \/ dominating_set_strategy
    \/ mst_strategy
    \/ complete_step
    \/ complete_return
    \/ random_round
    \/ random_return
    \/ output_list
    \/ Return

Spec == Init /\ [][Next]_vars

SpecMain == InitMain /\ [][Next]_vars

---------------------------------------------------------------------------
\* Vocabulary of the properties.

RankerTags == { "d", "b", "e", "k", "c" }

ExtractorTags == { "m", "s", "v" }

\* Exceptions raised inside networkx or numpy, not by the repository's code.
LibraryErrors == { "ZeroDivisionError", "NetworkXPointlessConcept",
                   "PowerIterationFailedConvergence", "StopIteration",
                   "ValueError" }

\* The strategy has returned its list to main.
Returned == pc = "emit"

\* Round r (from 0) of a schedule whose rounds hold w entries.
Round(q, w, r) == SubSeq(q, r * w + 1, (r + 1) * w)

\* keys are the m best of order by score, best first, equal scores in the
\* order of `order`.
IsStableTop(keys, order, score, m) ==
    /\ Len(keys) = m
    /\ Range(keys) \subseteq Range(order)
    /\ NoRepeats(keys)
    /\ \A a, b \in 1..m :
          a < b =>
            \/ Greater(score[keys[a]], score[keys[b]])
            \/ /\ Equal(score[keys[a]], score[keys[b]])
               /\ Pos(order, keys[a]) < Pos(order, keys[b])
    /\ \A a \in 1..m : \A u \in Range(order) \ Range(keys) :
            \/ Greater(score[keys[a]], score[u])
            \/ /\ Equal(score[keys[a]], score[u])
               /\ Pos(order, keys[a]) < Pos(order, u)

\* Degree centrality of the graph (S, F), written without the library model.
DegreeIn(S, F) ==
    [ u \in S |->
        IF Cardinality(S) <= 1 THEN Score(1, 1)
        ELSE Score(Cardinality({ v \in S : v # u /\ {u, v} \in F }),
                   Cardinality(S) - 1) ]

RECURSIVE Reach(_, _)
Reach(F, S) ==
    LET more == S \cup UNION { Neighbors(F, u) : u \in S }
    IN  IF more = S THEN S ELSE Reach(F, more)

Connected(F, u, v) == v \in Reach(F, {u})

\* F is a spanning forest of G: edges of G, the components of G, no cycle.
SpanningForest(F) ==
    /\ F \subseteq edges
    /\ \A u, v \in Range(nodes) : Connected(edges, u, v) <=> Connected(F, u, v)
    /\ \A e \in F : \A u, v \in e : u # v => ~Connected(F \ {e}, u, v)

\* Size of the ranked prefix of an extractor's round.
PrefixLen == Min(num_seeds, Cardinality(extracted))

---------------------------------------------------------------------------
\* C1: on every valid input (a graph with at least num_seeds nodes) every
\* strategy returns a list of exactly num_seeds * num_iterations entries and
\* none aborts.  Stated for the repository's own code: an exception raised
\* inside a library is left aside, an assertion or index error of the
\* strategy is not.
C1_FullScheduleOnValidInput ==
    (strategy \in KnownTags /\ Len(nodes) >= num_seeds) =>
        /\ err \notin { "AssertionError", "IndexError" }
        /\ Returned => Len(output) = num_seeds * num_iterations

\* C8: the assertion of dominating_set_strategy (line 162) holds on every
\* graph with at least num_seeds nodes: the strategy never aborts on it.
C8_DominatingSetAssertionHolds ==
    ~( /\ strategy = "s"
       /\ Len(nodes) >= num_seeds
       /\ pc = "aborted"
       /\ err = "AssertionError" )

---------------------------------------------------------------------------
\* The completion loop has been entered by an extractor strategy.
InCompletion == strategy \in ExtractorTags /\ pc \in { "complete", "emit" }

\* C3: the completion loop walks the whole-graph degree order, appends each
\* node that the round does not hold yet and stops at num_seeds entries.  It
\* ends in an index error exactly when the graph has fewer than num_seeds
\* nodes; with at least num_seeds nodes every read of the fallback order is
\* inside it and the loop ends with exactly num_seeds entries.
C3_CompletionLoop ==
    /\ InCompletion =>
          LET prefix == SubSeq(node_keys, 1, PrefixLen)
              walked == SubSeq(nodes_top_degrees, 1, i)
          IN  /\ IsStableTop(nodes_top_degrees, nodes,
                             DegreeIn(Range(nodes), edges),
                             Min(num_seeds, Len(nodes)))
              /\ i <= Len(nodes_top_degrees)
              /\ node_keys = prefix \o Restrict(walked, Range(nodes) \ Range(prefix))
              /\ Len(node_keys) <= num_seeds
              /\ (pc = "complete" /\ Len(node_keys) # num_seeds
                    /\ Len(nodes) >= num_seeds)
                    => i + 1 <= Len(nodes_top_degrees)
              /\ (pc = "complete" /\ Len(nodes) < num_seeds)
                    => Len(node_keys) # num_seeds
              /\ pc = "emit" =>
                    /\ Len(node_keys) = num_seeds
                    /\ Len(nodes) >= num_seeds
    /\ (strategy \in ExtractorTags /\ err = "IndexError") =>
          /\ Len(nodes) < num_seeds
          /\ i = Len(nodes_top_degrees)

C3_Witness ==
    /\ strategy = "v"
    /\ pc = "emit"
    /\ Len(nodes) = 4
    /\ num_seeds = 2
    /\ Cardinality(extracted) = 1
    /\ i = 2
    /\ Len(node_keys) = 2

\* C4: a round returned by an extractor strategy holds no node twice, in the
\* ranked prefix or among the nodes the completion loop appended.
C4_NoDuplicatesInRound ==
    (strategy \in ExtractorTags /\ Returned) =>
        /\ Len(output) = num_seeds * num_iterations
        /\ \A r \in 0..(num_iterations - 1) :
              NoRepeats(Round(output, num_seeds, r))

C4_Witness ==
    /\ strategy = "s"
    /\ Returned
    /\ num_seeds = 2
    /\ num_iterations = 2
    /\ Cardinality(extracted) = 1
    /\ i = 2
    /\ Len(output) = 4

---------------------------------------------------------------------------
\* The order in which the extracted nodes are iterated.
ExtractedOrder == Restrict(nodes, extracted)

\* The round starts with the best PrefixLen extracted nodes by degree
\* centrality in the graph (extracted, F); completion nodes follow, and there
\* is none when the extracted set has num_seeds nodes or more.
PrefixRankedOn(F) ==
    /\ Len(node_keys) >= PrefixLen
    /\ IsStableTop(SubSeq(node_keys, 1, PrefixLen), ExtractedOrder,
                   DegreeIn(extracted, F), PrefixLen)
    /\ \A j \in (PrefixLen + 1)..Len(node_keys) : node_keys[j] \notin extracted
    /\ Cardinality(extracted) >= num_seeds => (Len(node_keys) = num_seeds /\ i = 0)

\* C9 as claimed: every extractor ranks its extracted nodes by degree
\* centrality in the subgraph they induce in G (all edges of G between them).
C9_PrefixRankedOnInducedSubgraph ==
    InCompletion => PrefixRankedOn(Induced(edges, extracted))

\* C9 as amended: the dominating set and vertex cover strategies rank on the
\* induced subgraph; mst_strategy extracts every node of G and ranks by the
\* degree inside the spanning forest itself, not inside the induced subgraph
\* (which is G).  In all three the ranked prefix comes first, completion
\* nodes after it, none when the extracted set has num_seeds nodes or more.
C9_PrefixRankedOnExtractedGraph ==
    InCompletion =>
        /\ strategy \in { "s", "v" } => ranked_edges = Induced(edges, extracted)
        /\ strategy = "m" =>
              /\ extracted = Range(nodes)
              /\ SpanningForest(ranked_edges)
        /\ PrefixRankedOn(ranked_edges)

\* mst_strategy has returned a round that no ranking on the induced subgraph
\* gives.
C9_Witness ==
    /\ strategy = "m"
    /\ Returned
    /\ Len(nodes) = 4
    /\ num_seeds = 2
    /\ num_iterations = 1
    /\ ~PrefixRankedOn(Induced(edges, extracted))

\* C10: a ranker returns the best min(num_seeds, len(G)) nodes of its score
\* map, best first, equal scores in the iteration order of the score map and
\* not by identifier; on the complete graph of 4 nodes with num_seeds = 2 the
\* degree strategy returns the first two nodes of that order.
C10_StableTopK ==
    (strategy \in RankerTags /\ Returned) =>
        /\ DOMAIN centralities_dict = Range(nodes)
        /\ strategy = "d" => centralities_dict = DegreeIn(Range(nodes), edges)
        /\ IsStableTop(node_keys, nodes, centralities_dict,
                       Min(num_seeds, Len(nodes)))
        /\ (strategy = "d" /\ Len(nodes) = 4 /\ edges = AllPairs(4)
              /\ num_seeds = 2)
              => node_keys = << nodes[1], nodes[2] >>

\* K4 iterated from node 4 down: the identifiers would give << 1, 2 >>.
C10_Witness ==
    /\ strategy = "d"
    /\ Returned
    /\ nodes = << 4, 3, 2, 1 >>
    /\ edges = AllPairs(4)
    /\ num_seeds = 2
    /\ num_iterations = 1
    /\ output = << 4, 3 >>

---------------------------------------------------------------------------
\* C6: on a graph with n >= num_seeds nodes every round of the random
\* strategy holds num_seeds pairwise distinct indices in 0..n-1.  Rounds are
\* drawn one by one and are not kept apart from each other (C6_Witness: two
\* rounds with the same entries).
C6_RandomRoundsDistinctValid ==
    (strategy = "r" /\ pc \in { "r", "emit" } /\ Len(nodes) >= num_seeds) =>
        /\ Len(output) = i * num_seeds
        /\ pc = "emit" => i = num_iterations
        /\ \A r \in 0..(i - 1) :
              /\ NoRepeats(Round(output, num_seeds, r))
              /\ Range(Round(output, num_seeds, r)) \subseteq 0..(Len(nodes) - 1)

C6_Witness ==
    /\ strategy = "r"
    /\ Returned
    /\ Len(nodes) = 3
    /\ num_seeds = 2
    /\ num_iterations = 2
    /\ Round(output, 2, 0) = << 2, 0 >>
    /\ Round(output, 2, 1) = << 0, 1 >>

---------------------------------------------------------------------------
\* Position of the first tag that is no strategy, 0 when every tag is one.
FirstUnknown ==
    IF \E j \in DOMAIN strategies : Lower(strategies[j]) \notin KnownTags
    THEN CHOOSE j \in DOMAIN strategies :
            /\ Lower(strategies[j]) \notin KnownTags
            /\ \A m \in 1..(j - 1) : Lower(strategies[m]) \in KnownTags
    ELSE 0

\* C5 as claimed: a run whose tag list holds an unknown tag writes no output
\* file at all, neither for that tag nor for a tag after or before it.
C5_NoOutputAtAll ==
    FirstUnknown # 0 => DOMAIN files = {}

\* C5 as amended: the unknown tag ends the run with an assertion error when
\* the loop reaches it; no strategy runs in its place, and no file is written
\* for it or for any later position of the list.  The files of the tags
\* before it were written before the run ended, and they stay.
C5_AbortAtUnknownTag ==
    FirstUnknown # 0 =>
        /\ s <= FirstUnknown
        /\ pc # "done"
        /\ DOMAIN files = { Lower(strategies[j]) : j \in 1..(s - 1) }
        /\ DOMAIN files \subseteq KnownTags
        /\ (pc = "main" /\ s = FirstUnknown) => err = "none"
        /\ (pc = "aborted" /\ s = FirstUnknown) =>
              /\ err = "AssertionError"
              /\ strategy = Lower(strategies[s])

C5_Witness ==
    /\ strategies = << "c", "x" >>
    /\ Len(nodes) = 1
    /\ num_seeds = 1
    /\ pc = "aborted"
    /\ err = "AssertionError"
    /\ s = 2
    /\ DOMAIN files = { "c" }
    /\ files["c"] = << 1 >>

=============================================================================
